---- MODULE Spec2Model ----
(***************************************************************************)
(* Task / reward / streak backend (souravsouru7/taskback).                 *)
(*                                                                         *)
(* State: the persisted Task and User documents and the wall clock.  One   *)
(* action per route handler; a handler runs to completion in one step      *)
(* (requests are processed one at a time in Spec and SpecExt).  A request  *)
(* the handler rejects (400, 403, 404) or whose first save fails (500)     *)
(* leaves the state as it was.  Time is counted in ticks, with TicksPerDay *)
(* ticks to the calendar day.                                              *)
(*                                                                         *)
(* Spec     status changes, completions, rewards and streaks over time.    *)
(* SpecExt  every task operation within one instant, with the extension    *)
(*          requests and the assignment of arbitrary body keys by PUT.     *)
(* SpecRace two completion requests whose awaits interleave.               *)
(* SpecProject  task creations and project deletions whose awaits          *)
(*          interleave.                                                    *)
(* SpecNotif    comments and the notifications they create, and the        *)
(*          marking of notifications as read.                              *)
(***************************************************************************)
EXTENDS Integers, Sequences, FiniteSets, TLC

VARIABLES
    variant,   \* which Task model is deployed: "flat" (models/Task.js) or "tiered"
    now,       \* wall clock, in ticks
    tasks,     \* persisted Task documents, by _id (1..Len(tasks))
    users,     \* persisted reward state of every User document
    ext,       \* extensionRequest sub-document of every Task, by _id
    reqs,      \* requests in flight: position and in-memory documents
    overlapped,\* a request loaded the user while another held a loaded copy
    projects,  \* _ids of the persisted Project documents
    comments,  \* comments embedded in the Task documents, in posting order
    notifs     \* persisted Notification documents, by _id (1..Len(notifs))

inflight == <<reqs, overlapped>>
others == <<projects, comments, notifs>>
vars == <<variant, now, tasks, users, ext, reqs, overlapped,
          projects, comments, notifs>>

----------------------------------------------------------------------------
(* Bounds of the model *)

TicksPerDay == 2      \* clock ticks per calendar day
MaxTime == 4          \* the clock stops here
NumTasks == 1         \* tasks that can be created
MaxNewRewards == 2    \* completions are accepted while fewer new log entries exist
NumRequests == 2      \* requests in flight together (SpecRace, SpecProject)
MaxComments == 2      \* comments that can be posted (SpecNotif)

(* Program constants *)

BasePoints == 50
UrgentBonus == 50
HighBonus == 30
MediumBonus == 20
LowBonus == 10
StreakMilestone == 10
StreakBonusFactor == 100

----------------------------------------------------------------------------
(* Domains *)

Users == {"admin", "alice"}
\* the accounts of the notification scenarios: a second administrator besides
\* the two users of the reward scenarios
Staff == Users \cup {"root"}
Role(u) == IF u \in {"admin", "root"} THEN "admin" ELSE "employee"
\* the isAdmin middleware lets a request through
IsAdmin(actor) == Role(actor) = "admin"
Statuses == {"pending", "in_progress", "completed", "overdue"}
Priorities == {"low", "medium", "high", "urgent"}
Variants == {"flat", "tiered"}
Null == -1
\* an unset reference to a User
NoUser == "none"
\* the clock starts at midnight of day 1; day 0 is yesterday
StartTime == TicksPerDay
\* due dates sent by clients: midnight of the first and of the last day
DueDates == {StartTime, (MaxTime \div TicksPerDay) * TicksPerDay}
FailPoints == {"none", "task", "bonus", "streak", "reward"}
Projects == {"p1", "p2"}
\* the project the tasks of Spec, SpecExt and SpecRace belong to
MainProject == "p1"
\* an ObjectId that names no User document
Ghost == "ghost"
\* dates sent as newDueDate: one day after each due date
ProposedDates == {d + TicksPerDay : d \in DueDates}

Day(t) == t \div TicksPerDay

----------------------------------------------------------------------------
(* User model *)

NewUser ==
    [rewardPoints |-> 0, currentStreak |-> 0, lastTaskCompletion |-> Null,
     rewards |-> <<>>]

CompletionReason(title) == [kind |-> "completion", ref |-> title]
StreakReason(streak) == [kind |-> "streak", ref |-> streak]

\* addRewardPoints without the push onto the rewards log
addRewardPoints_NoLog(user, points, reason, nowT) ==
    [user EXCEPT !.rewardPoints = @ + points]

\* in-memory effect of addRewardPoints at instant nowT, before its save
addRewardPoints(user, points, reason, nowT) ==
    [user EXCEPT !.rewardPoints = @ + points,
                 !.rewards = Append(@, [type |-> "points", value |-> points,
                                        description |-> reason, date |-> nowT])]

daysDiff(nowT, lastCompletion) == (nowT - lastCompletion) \div TicksPerDay

\* the streak computation in which a first completion starts no streak
StreakAfter_NoFirst(user, nowT) ==
    IF user.lastTaskCompletion = Null
    THEN user.currentStreak
    ELSE LET d == daysDiff(nowT, user.lastTaskCompletion)
         IN  IF d = 1 THEN user.currentStreak + 1
             ELSE IF d > 1 THEN 1
             ELSE user.currentStreak

\* currentStreak after the branches of updateStreak
StreakAfter(user, nowT) ==
    IF user.lastTaskCompletion = Null
    THEN 1
    ELSE LET d == daysDiff(nowT, user.lastTaskCompletion)
         IN  IF d = 1 THEN user.currentStreak + 1
             ELSE IF d > 1 THEN 1
             ELSE user.currentStreak

StreakRewardDue(user) == user.currentStreak % StreakMilestone = 0

\* updateStreak: the persisted document and whether it returned normally, when
\* the save named by fail (if reached) is rejected by the store
updateStreak(user, nowT, fail) ==
    LET u1 == [user EXCEPT !.currentStreak = StreakAfter(user, nowT),
                           !.lastTaskCompletion = nowT]
        due == StreakRewardDue(u1)
        u2 == IF due
              THEN addRewardPoints(u1, u1.currentStreak * StreakBonusFactor,
                                   StreakReason(u1.currentStreak), nowT)
              ELSE u1
    IN  IF due /\ fail = "bonus" THEN [doc |-> user, ok |-> FALSE]
        ELSE IF fail = "streak" THEN [doc |-> IF due THEN u2 ELSE user, ok |-> FALSE]
        ELSE [doc |-> u2, ok |-> TRUE]

----------------------------------------------------------------------------
(* Task model *)

PriorityBonus(p) ==
    CASE p = "urgent" -> UrgentBonus
      [] p = "high" -> HighBonus
      [] p = "medium" -> MediumBonus
      [] p = "low" -> LowBonus

EndOfDay(d) == Day(d) * TicksPerDay + (TicksPerDay - 1)

\* the on-time test without the end-of-day adjustment
OnTime_RawDueDate(nowT, dueDate) == nowT <= dueDate

\* the on-time test of the deployed variant
OnTime(nowT, dueDate) ==
    IF variant = "flat" THEN nowT <= EndOfDay(dueDate) ELSE nowT <= dueDate

\* task.rewardPoints after completeTask's branch on isCompletedOnTime
RewardFor(task, onTime) ==
    IF variant = "flat"
    THEN (IF onTime THEN BasePoints ELSE 0)
    ELSE (IF onTime THEN BasePoints + PriorityBonus(task.priority)
                    ELSE task.rewardPoints)

\* completeTask saving the task after the user instead of before
completeTask_TaskLast(id, mem, nowT, fail) ==
    LET onTime == OnTime(nowT, mem.dueDate)
        t1 == [mem EXCEPT !.status = "completed",
                          !.completionDate = nowT,
                          !.isCompletedOnTime = onTime,
                          !.rewardPoints = RewardFor(mem, onTime)]
        a == t1.assignedTo
    IN  IF a \notin Users \/ ~onTime
        THEN [task |-> IF fail = "task" THEN tasks[id] ELSE t1,
              users |-> users, ok |-> fail # "task"]
        ELSE LET s == updateStreak(users[a], nowT, fail)
             IN  IF ~s.ok \/ fail = "reward"
                 THEN [task |-> tasks[id],
                       users |-> [users EXCEPT ![a] = s.doc], ok |-> FALSE]
                 ELSE IF fail = "task"
                 THEN [task |-> tasks[id],
                       users |-> [users EXCEPT ![a] =
                                     addRewardPoints(s.doc, t1.rewardPoints,
                                                     CompletionReason(id), nowT)],
                       ok |-> FALSE]
                 ELSE [task |-> t1,
                       users |-> [users EXCEPT ![a] =
                                     addRewardPoints(s.doc, t1.rewardPoints,
                                                     CompletionReason(id), nowT)],
                       ok |-> TRUE]

\* completeTask rewarding the task's creator instead of its assignee
completeTask_RewardCreator(id, mem, nowT, fail) ==
    LET onTime == OnTime(nowT, mem.dueDate)
        t1 == [mem EXCEPT !.status = "completed",
                          !.completionDate = nowT,
                          !.isCompletedOnTime = onTime,
                          !.rewardPoints = RewardFor(mem, onTime)]
        a == t1.createdBy
    IN  IF fail = "task"
        THEN [task |-> tasks[id], users |-> users, ok |-> FALSE]
        ELSE IF a \notin Users \/ ~onTime
        THEN [task |-> t1, users |-> users, ok |-> TRUE]
        ELSE LET s == updateStreak(users[a], nowT, fail)
             IN  IF ~s.ok \/ fail = "reward"
                 THEN [task |-> t1, users |-> [users EXCEPT ![a] = s.doc],
                       ok |-> FALSE]
                 ELSE [task |-> t1,
                       users |-> [users EXCEPT ![a] =
                                     addRewardPoints(s.doc, t1.rewardPoints,
                                                     CompletionReason(id), nowT)],
                       ok |-> TRUE]

\* completeTask on the in-memory document mem of the persisted task id:
\* the persisted task, the persisted users and whether it returned normally
completeTask(id, mem, nowT, fail) ==
    LET onTime == OnTime(nowT, mem.dueDate)
        t1 == [mem EXCEPT !.status = "completed",
                          !.completionDate = nowT,
                          !.isCompletedOnTime = onTime,
                          !.rewardPoints = RewardFor(mem, onTime)]
        a == t1.assignedTo
    IN  IF fail = "task"
        THEN [task |-> tasks[id], users |-> users, ok |-> FALSE]
        ELSE IF a \notin Users \/ ~onTime
        THEN [task |-> t1, users |-> users, ok |-> TRUE]
        ELSE LET s == updateStreak(users[a], nowT, fail)
             IN  IF ~s.ok
                 THEN [task |-> t1, users |-> [users EXCEPT ![a] = s.doc],
                       ok |-> FALSE]
                 ELSE IF fail = "reward"
                 THEN [task |-> t1, users |-> [users EXCEPT ![a] = s.doc],
                       ok |-> FALSE]
                 ELSE [task |-> t1,
                       users |-> [users EXCEPT ![a] =
                                     addRewardPoints(s.doc, t1.rewardPoints,
                                                     CompletionReason(id), nowT)],
                       ok |-> TRUE]

\* the extensionRequest sub-document of a new task (schema defaults)
NoExtension ==
    [requested |-> FALSE, status |-> "pending", requestedBy |-> NoUser,
     newDueDate |-> Null, approvedBy |-> NoUser]

----------------------------------------------------------------------------
(* Initial state *)

\* a user who has completed one task on time on each of the last n days, the
\* last of them at the last instant of yesterday; the streak reward was logged
\* when the streak reached StreakMilestone
Veteran(n) ==
    LET pts == IF variant = "flat" THEN BasePoints ELSE BasePoints + MediumBonus
        \* the k-th of the n completions
        at(k) == StartTime - 1 - (n - k) * TicksPerDay
        entry(i) ==
            IF i = StreakMilestone
            THEN [type |-> "points", value |-> StreakMilestone * StreakBonusFactor,
                  description |-> StreakReason(StreakMilestone),
                  date |-> at(StreakMilestone)]
            ELSE [type |-> "points", value |-> pts,
                  description |-> CompletionReason(0),
                  date |-> at(IF i < StreakMilestone THEN i ELSE i - 1)]
        len == IF n < StreakMilestone THEN n ELSE n + 1
    IN  [rewardPoints |-> n * pts +
             (IF n < StreakMilestone THEN 0 ELSE StreakMilestone * StreakBonusFactor),
         currentStreak |-> n, lastTaskCompletion |-> StartTime - 1,
         rewards |-> [i \in 1..len |-> entry(i)]]

InitialUsers == {NewUser, Veteran(StreakMilestone - 1), Veteran(StreakMilestone)}

Init ==
    /\ variant \in Variants
    /\ now = StartTime
    /\ tasks = <<>>
    /\ \E a \in InitialUsers :
           users = [u \in Users |-> IF u = "alice" THEN a ELSE NewUser]
    /\ ext = <<>>
    /\ reqs = <<>>
    /\ overlapped = FALSE
    /\ projects = Projects
    /\ comments = <<>>
    /\ notifs = <<>>

----------------------------------------------------------------------------
(* Actions *)

Tick ==
    /\ now < MaxTime
    /\ now' = now + 1
    /\ UNCHANGED <<variant, tasks, users, ext, inflight, others>>

\* the Task document POST / builds from the request body
NewTask(actor, project, assignedTo, priority, dueDate, status) ==
    [status |-> status, priority |-> priority,
     dueDate |-> dueDate, completionDate |-> Null,
     isCompletedOnTime |-> FALSE, rewardPoints |-> 0,
     assignedTo |-> assignedTo, createdBy |-> actor, project |-> project]

\* POST /  (admin only), for a task of MainProject.  The assignee named in the
\* body exists; the creator is the authenticated user.
CreateTaskReq(actor, assignedTo, priority, dueDate, status) ==
    /\ Len(tasks) < NumTasks
    /\ IF ~IsAdmin(actor)
       THEN UNCHANGED <<tasks, ext>>                              \* 403
       ELSE IF MainProject \notin projects
       THEN UNCHANGED <<tasks, ext>>                              \* 404
       ELSE /\ tasks' = Append(tasks,
                  NewTask(actor, MainProject, assignedTo, priority,
                          dueDate, status))                       \* 201
            /\ ext' = Append(ext, NoExtension)
    /\ UNCHANGED <<variant, now, users, inflight, others>>

CreateTask ==
    \E actor \in Users, assignedTo \in Users, priority \in Priorities,
       dueDate \in DueDates, status \in {"pending", "completed"} :
        CreateTaskReq(actor, assignedTo, priority, dueDate, status)

\* reward-log entries written since the clock started
NewRewards ==
    LET Count(u) == Cardinality({i \in DOMAIN users[u].rewards :
                                    users[u].rewards[i].date >= StartTime})
    IN  Count("admin") + Count("alice")

\* PATCH /:id/status without the test that the requester is the assignee or
\* an admin
PatchStatusReq_NoAuth(actor, id, status, fail) ==
    /\ status = "completed" => NewRewards < MaxNewRewards
    /\ IF status \notin Statuses \/ id > Len(tasks)
       THEN UNCHANGED <<tasks, users>>
       ELSE LET mem == [tasks[id] EXCEPT !.status = status]
            IN  IF status = "completed"
                THEN LET r == completeTask(id, mem, now, fail)
                     IN  /\ tasks' = [tasks EXCEPT ![id] = r.task]
                         /\ users' = r.users
                ELSE /\ tasks' = [tasks EXCEPT ![id] =
                                     IF fail = "task" THEN @ ELSE mem]
                     /\ users' = users
    /\ UNCHANGED <<variant, now, ext, inflight, others>>

\* PATCH /:id/status
PatchStatusReq(actor, id, status, fail) ==
    /\ status = "completed" => NewRewards < MaxNewRewards
    /\ IF status \notin Statuses
       THEN UNCHANGED <<tasks, users>>                            \* 400
       ELSE IF id > Len(tasks)
       THEN UNCHANGED <<tasks, users>>                            \* 404
       ELSE IF tasks[id].assignedTo # actor /\ Role(actor) # "admin"
       THEN UNCHANGED <<tasks, users>>                            \* 403
       ELSE LET mem == [tasks[id] EXCEPT !.status = status]
            IN  IF status = "completed"
                THEN LET r == completeTask(id, mem, now, fail)
                     IN  /\ tasks' = [tasks EXCEPT ![id] = r.task]
                         /\ users' = r.users
                ELSE /\ tasks' = [tasks EXCEPT ![id] =
                                     IF fail = "task" THEN @ ELSE mem]
                     /\ users' = users
    /\ UNCHANGED <<variant, now, ext, inflight, others>>

\* the HTTP status PATCH /:id/status answers with
PatchStatusCode(actor, id, status, fail) ==
    IF status \notin Statuses THEN 400
    ELSE IF id > Len(tasks) THEN 404
    ELSE IF tasks[id].assignedTo # actor /\ Role(actor) # "admin" THEN 403
    ELSE IF status = "completed"
    THEN (IF completeTask(id, [tasks[id] EXCEPT !.status = status], now, fail).ok
          THEN 200 ELSE 500)
    ELSE (IF fail = "task" THEN 500 ELSE 200)

\* rewardInfo: null
NoRewardInfo ==
    [present |-> FALSE, pointsEarned |-> 0, totalPoints |-> 0,
     currentStreak |-> 0, isCompletedOnTime |-> FALSE]

\* rewardInfo built from the User document as it was before completeTask
RewardInfo_Stale(actor, id, status, fail) ==
    IF PatchStatusCode(actor, id, status, fail) # 200 \/ status # "completed"
    THEN NoRewardInfo
    ELSE LET r == completeTask(id, [tasks[id] EXCEPT !.status = status], now, fail)
             a == r.task.assignedTo
         IN  IF a \notin Users THEN NoRewardInfo
             ELSE [present |-> TRUE,
                   pointsEarned |-> r.task.rewardPoints,
                   totalPoints |-> users[a].rewardPoints,
                   currentStreak |-> users[a].currentStreak,
                   isCompletedOnTime |-> r.task.isCompletedOnTime]

\* the rewardInfo of the answer of PATCH /:id/status: built from the task
\* completeTask returned and from the User document read after it
RewardInfo(actor, id, status, fail) ==
    IF PatchStatusCode(actor, id, status, fail) # 200 \/ status # "completed"
    THEN NoRewardInfo
    ELSE LET r == completeTask(id, [tasks[id] EXCEPT !.status = status], now, fail)
             a == r.task.assignedTo
         IN  IF a \notin Users THEN NoRewardInfo
             ELSE [present |-> TRUE,
                   pointsEarned |-> r.task.rewardPoints,
                   totalPoints |-> r.users[a].rewardPoints,
                   currentStreak |-> r.users[a].currentStreak,
                   isCompletedOnTime |-> r.task.isCompletedOnTime]

\* the saves a request with this status can reach
SavesOf(status) ==
    IF status = "completed" THEN FailPoints
    ELSE IF status \in Statuses THEN {"none", "task"}
    ELSE {"none"}

PatchStatus ==
    \E actor \in Users, id \in 1..NumTasks,
       status \in {"in_progress", "completed", "", "invalid"} :
        \E fail \in SavesOf(status) :
            PatchStatusReq(actor, id, status, fail)

\* the documents PUT /:id can produce from task: every key of the request body
\* is assigned to the document (one key per request here)
PutResults(task) ==
    {[task EXCEPT !.status = s] : s \in {"pending", "completed"}}
    \cup {[task EXCEPT !.dueDate = d] : d \in DueDates}
    \cup {[task EXCEPT !.rewardPoints = 0]}

\* PUT /:id  (admin only)
PutTaskReq(actor, id, updated) ==
    /\ IF ~IsAdmin(actor)
       THEN UNCHANGED tasks                                       \* 403
       ELSE IF id > Len(tasks)
       THEN UNCHANGED tasks                                       \* 404
       ELSE /\ updated \in PutResults(tasks[id])
            /\ tasks' = [tasks EXCEPT ![id] = updated]
    /\ UNCHANGED <<variant, now, users, ext, inflight, others>>

PutTask ==
    \E actor \in Users, id \in 1..NumTasks :
        \E updated \in (IF id <= Len(tasks) THEN PutResults(tasks[id]) ELSE {<<>>}) :
            PutTaskReq(actor, id, updated)

Next == Tick \/ CreateTask \/ PatchStatus \/ PutTask

Spec == Init /\ [][Next]_vars

----------------------------------------------------------------------------
(* Extension requests, and the other keys PUT /:id assigns *)

\* PUT /:id  (admin only) with body {assignedTo}: any ObjectId is accepted
PutAssigneeReq(actor, id, assignee) ==
    /\ IF ~IsAdmin(actor)
       THEN UNCHANGED tasks                                       \* 403
       ELSE IF id > Len(tasks)
       THEN UNCHANGED tasks                                       \* 404
       ELSE tasks' = [tasks EXCEPT ![id].assignedTo = assignee]
    /\ UNCHANGED <<variant, now, users, ext, inflight, others>>

PutAssignee ==
    \E actor \in Users, id \in 1..NumTasks, assignee \in Users \cup {Ghost} :
        PutAssigneeReq(actor, id, assignee)

\* PUT /:id  (admin only) with body {extensionRequest: {requested: true}}
PutExtensionReq(actor, id) ==
    /\ IF ~IsAdmin(actor)
       THEN UNCHANGED ext                                         \* 403
       ELSE IF id > Len(tasks)
       THEN UNCHANGED ext                                         \* 404
       ELSE ext' = [ext EXCEPT ![id] = [NoExtension EXCEPT !.requested = TRUE]]
    /\ UNCHANGED <<variant, now, tasks, users, inflight, others>>

PutExtension ==
    \E actor \in Users, id \in 1..NumTasks : PutExtensionReq(actor, id)

\* POST /:id/extension-request
RequestExtensionReq(actor, id, reason, newDueDate) ==
    /\ IF id > Len(tasks)
       THEN UNCHANGED ext                                         \* 404
       ELSE IF tasks[id].assignedTo # actor
       THEN UNCHANGED ext                                         \* 403
       ELSE IF reason = "" \/ newDueDate = Null
       THEN UNCHANGED ext                                         \* 400
       ELSE IF newDueDate <= tasks[id].dueDate
       THEN UNCHANGED ext                                         \* 400
       ELSE ext' = [ext EXCEPT ![id] =
                       [requested |-> TRUE, status |-> "pending",
                        requestedBy |-> actor, newDueDate |-> newDueDate,
                        approvedBy |-> NoUser]]
    /\ UNCHANGED <<variant, now, tasks, users, inflight, others>>

RequestExtension ==
    \E actor \in Users, id \in 1..NumTasks, reason \in {"", "reason"},
       newDueDate \in ProposedDates \cup {StartTime, Null} :
        RequestExtensionReq(actor, id, reason, newDueDate)

\* the resolution that applies the date stored in the request, not the date
\* of its own body
ResolveExtensionReq_Stored(actor, id, status, newDueDate) ==
    /\ IF ~IsAdmin(actor) \/ id > Len(tasks)
       THEN UNCHANGED <<tasks, ext>>
       ELSE IF ~ext[id].requested \/ status \notin {"approved", "rejected"}
       THEN UNCHANGED <<tasks, ext>>
       ELSE IF status = "approved"
       THEN IF ext[id].newDueDate <= tasks[id].dueDate
            THEN UNCHANGED <<tasks, ext>>
            ELSE /\ tasks' = [tasks EXCEPT ![id].dueDate = ext[id].newDueDate]
                 /\ ext' = [ext EXCEPT ![id].status = "approved",
                                       ![id].approvedBy = actor]
       ELSE /\ ext' = [ext EXCEPT ![id].status = "rejected",
                                  ![id].approvedBy = actor]
            /\ UNCHANGED tasks
    /\ UNCHANGED <<variant, now, users, inflight, others>>

\* PATCH /:id/extension-request  (admin only)
ResolveExtensionReq(actor, id, status, newDueDate) ==
    /\ IF ~IsAdmin(actor)
       THEN UNCHANGED <<tasks, ext>>                              \* 403
       ELSE IF id > Len(tasks)
       THEN UNCHANGED <<tasks, ext>>                              \* 404
       ELSE IF ~ext[id].requested
       THEN UNCHANGED <<tasks, ext>>                              \* 400
       ELSE IF status \notin {"approved", "rejected"}
       THEN UNCHANGED <<tasks, ext>>                              \* 400
       ELSE IF status = "approved" /\ newDueDate = Null
       THEN UNCHANGED <<tasks, ext>>                              \* 400
       ELSE IF status = "approved"
       THEN IF newDueDate <= tasks[id].dueDate
            THEN UNCHANGED <<tasks, ext>>                         \* 400
            ELSE /\ tasks' = [tasks EXCEPT ![id].dueDate = newDueDate]
                 /\ ext' = [ext EXCEPT ![id].status = "approved",
                                       ![id].approvedBy = actor,
                                       ![id].newDueDate = newDueDate]
       ELSE /\ ext' = [ext EXCEPT ![id].status = "rejected",
                                  ![id].approvedBy = actor]
            /\ UNCHANGED tasks
    /\ UNCHANGED <<variant, now, users, inflight, others>>

ResolveExtension ==
    \E actor \in Users, id \in 1..NumTasks,
       status \in {"approved", "rejected", "pending"},
       newDueDate \in ProposedDates \cup {StartTime, Null} :
        ResolveExtensionReq(actor, id, status, newDueDate)

\* PUT /:id is represented by the two body keys above
NextExt ==
    \/ CreateTask \/ PatchStatus
    \/ PutAssignee \/ PutExtension \/ RequestExtension \/ ResolveExtension

\* every user starts without reward history
InitExt == Init /\ users = [u \in Users |-> NewUser]

SpecExt == InitExt /\ [][NextExt]_vars

----------------------------------------------------------------------------
(* Completion requests whose awaits interleave *)

\* a save that writes the reward log but not the modified scalar paths
SaveUser_OnlyLog(stored, base, mem) ==
    [stored EXCEPT !.rewards =
        @ \o SubSeq(mem.rewards, Len(base.rewards) + 1, Len(mem.rewards))]

\* user.save(): the store receives the paths the in-memory document mem
\* changed since it was loaded or last saved (base): modified scalars are set
\* to their in-memory values, pushed log entries are appended
SaveUser(stored, base, mem) ==
    [stored EXCEPT
        !.rewardPoints =
            IF mem.rewardPoints # base.rewardPoints THEN mem.rewardPoints ELSE @,
        !.currentStreak =
            IF mem.currentStreak # base.currentStreak THEN mem.currentStreak ELSE @,
        !.lastTaskCompletion =
            IF mem.lastTaskCompletion # base.lastTaskCompletion
            THEN mem.lastTaskCompletion ELSE @,
        !.rewards =
            @ \o SubSeq(mem.rewards, Len(base.rewards) + 1, Len(mem.rewards))]

\* the tasks the interleaved requests complete: assigned to alice, due tomorrow
RaceTasks ==
    [i \in 1..NumRequests |->
        [status |-> "pending", priority |-> IF i = 1 THEN "high" ELSE "low",
         dueDate |-> StartTime + TicksPerDay, completionDate |-> Null,
         isCompletedOnTime |-> FALSE, rewardPoints |-> 0,
         assignedTo |-> "alice", createdBy |-> "admin",
         project |-> MainProject]]

\* a request that has not started: PATCH /:id/status "completed" on task
\* target, sent by the assignee
NewRequest(target) ==
    [pc |-> "start", task |-> target, points |-> 0, awarded |-> 0,
     mem |-> NewUser, base |-> NewUser]

\* the requests arrive at the first or at the last instant of today; alice is
\* new, or one on-time completion short of a streak reward
InitRace ==
    /\ variant \in Variants
    /\ now \in {StartTime, StartTime + TicksPerDay - 1}
    /\ tasks = RaceTasks
    /\ ext = [i \in 1..NumRequests |-> NoExtension]
    /\ \E a \in {NewUser, Veteran(StreakMilestone - 1)} :
           users = [u \in Users |-> IF u = "alice" THEN a ELSE NewUser]
    /\ \E target \in [1..NumRequests -> 1..NumRequests] :
           reqs = [r \in 1..NumRequests |-> NewRequest(target[r])]
    /\ overlapped = FALSE
    /\ projects = Projects
    /\ comments = <<>>
    /\ notifs = <<>>

\* the route and completeTask up to "await this.save()" on the task
RaceSaveTask(r) ==
    /\ reqs[r].pc = "start"
    /\ LET id == reqs[r].task
           mem == [tasks[id] EXCEPT !.status = "completed"]
           onTime == OnTime(now, mem.dueDate)
           t1 == [mem EXCEPT !.completionDate = now,
                             !.isCompletedOnTime = onTime,
                             !.rewardPoints = RewardFor(mem, onTime)]
       IN  /\ tasks' = [tasks EXCEPT ![id] = t1]
           /\ reqs' = [reqs EXCEPT
                          ![r].pc = IF onTime THEN "findUser" ELSE "done",
                          ![r].points = t1.rewardPoints]
    /\ UNCHANGED <<variant, now, users, ext, overlapped, others>>

\* "await User.findById(this.assignedTo)"
RaceLoadUser(r) ==
    /\ reqs[r].pc = "findUser"
    /\ LET a == tasks[reqs[r].task].assignedTo
       IN  reqs' = [reqs EXCEPT ![r].pc = "loaded",
                               ![r].mem = users[a], ![r].base = users[a]]
    /\ overlapped' = (overlapped \/ \E o \in DOMAIN reqs \ {r} :
                                       reqs[o].pc \in {"loaded", "streaked"})
    /\ UNCHANGED <<variant, now, tasks, users, ext, others>>

\* "await user.updateStreak(now)": its one effective save (the streak bonus
\* is saved by addRewardPoints, after which the second save has nothing to write)
RaceUpdateStreak(r) ==
    /\ reqs[r].pc = "loaded"
    /\ LET a == tasks[reqs[r].task].assignedTo
           m == updateStreak(reqs[r].mem, now, "none").doc
       IN  /\ users' = [users EXCEPT ![a] = SaveUser(@, reqs[r].base, m)]
           /\ reqs' = [reqs EXCEPT
                          ![r].pc = "streaked", ![r].mem = m, ![r].base = m,
                          ![r].awarded = @ + (m.rewardPoints - reqs[r].mem.rewardPoints)]
    /\ UNCHANGED <<variant, now, tasks, ext, overlapped, others>>

\* "await user.addRewardPoints(this.rewardPoints, ...)"
RaceAddReward(r) ==
    /\ reqs[r].pc = "streaked"
    /\ LET id == reqs[r].task
           a == tasks[id].assignedTo
           m == addRewardPoints(reqs[r].mem, reqs[r].points,
                                CompletionReason(id), now)
       IN  /\ users' = [users EXCEPT ![a] = SaveUser(@, reqs[r].base, m)]
           /\ reqs' = [reqs EXCEPT
                          ![r].pc = "done", ![r].mem = m, ![r].base = m,
                          ![r].awarded = @ + reqs[r].points]
    /\ UNCHANGED <<variant, now, tasks, ext, overlapped, others>>

NextRace ==
    \E r \in 1..NumRequests :
        RaceSaveTask(r) \/ RaceLoadUser(r) \/ RaceUpdateStreak(r) \/ RaceAddReward(r)

SpecRace == InitRace /\ [][NextRace]_vars

----------------------------------------------------------------------------
(* Task creations and project deletions whose awaits interleave *)

\* a request that has not started: POST / for a task of project ("create") or
\* DELETE /projects/:id ("delete"), sent by an admin; code is the answer
ProjectRequest(kind, project) ==
    [pc |-> "start", kind |-> kind, project |-> project, code |-> 0]

InitProject ==
    /\ variant \in Variants
    /\ now = StartTime
    /\ tasks = <<>>
    /\ ext = <<>>
    /\ users = [u \in Users |-> NewUser]
    /\ \E kind \in [1..NumRequests -> {"create", "delete"}],
          project \in [1..NumRequests -> Projects] :
           reqs = [r \in 1..NumRequests |-> ProjectRequest(kind[r], project[r])]
    /\ overlapped = FALSE
    /\ projects = Projects
    /\ comments = <<>>
    /\ notifs = <<>>

RECURSIVE KeptIds(_, _)
\* the _ids among 1..n of the tasks that do not belong to project
KeptIds(project, n) ==
    IF n = 0 THEN <<>>
    ELSE KeptIds(project, n - 1)
         \o (IF tasks[n].project # project THEN <<n>> ELSE <<>>)

\* POST /: "await Project.findById(project)" and the test of its result
CreateCheckProject(r) ==
    /\ reqs[r].kind = "create" /\ reqs[r].pc = "start"
    /\ reqs' = IF reqs[r].project \in projects
               THEN [reqs EXCEPT ![r].pc = "checked"]
               ELSE [reqs EXCEPT ![r].pc = "done", ![r].code = 404]
    /\ UNCHANGED <<variant, now, tasks, users, ext, overlapped, others>>

\* POST /: "await task.save()"
CreateSaveTask(r) ==
    /\ reqs[r].kind = "create" /\ reqs[r].pc = "checked"
    /\ \E assignedTo \in Users :
           tasks' = Append(tasks, NewTask("admin", reqs[r].project, assignedTo,
                                          "medium", StartTime, "pending"))
    /\ ext' = Append(ext, NoExtension)
    /\ reqs' = [reqs EXCEPT ![r].pc = "done", ![r].code = 201]
    /\ UNCHANGED <<variant, now, users, overlapped, others>>

\* DELETE /projects/:id: "await Project.findById(req.params.id)"
DeleteFindProject(r) ==
    /\ reqs[r].kind = "delete" /\ reqs[r].pc = "start"
    /\ reqs' = IF reqs[r].project \in projects
               THEN [reqs EXCEPT ![r].pc = "found"]
               ELSE [reqs EXCEPT ![r].pc = "done", ![r].code = 404]
    /\ UNCHANGED <<variant, now, tasks, users, ext, overlapped, others>>

\* DELETE /projects/:id: "await Task.deleteMany({ project: project._id })"
DeleteProjectTasks(r) ==
    /\ reqs[r].kind = "delete" /\ reqs[r].pc = "found"
    /\ LET kept == KeptIds(reqs[r].project, Len(tasks))
       IN  /\ tasks' = [i \in 1..Len(kept) |-> tasks[kept[i]]]
           /\ ext' = [i \in 1..Len(kept) |-> ext[kept[i]]]
    /\ reqs' = [reqs EXCEPT ![r].pc = "tasksDeleted"]
    /\ UNCHANGED <<variant, now, users, overlapped, others>>

\* DELETE /projects/:id: "await Project.deleteOne({ _id: project._id })" and
\* the answer
DeleteProjectDoc(r) ==
    /\ reqs[r].kind = "delete" /\ reqs[r].pc = "tasksDeleted"
    /\ projects' = projects \ {reqs[r].project}
    /\ reqs' = [reqs EXCEPT ![r].pc = "done", ![r].code = 200]
    /\ UNCHANGED <<variant, now, tasks, users, ext, overlapped, comments, notifs>>

NextProject ==
    \E r \in 1..NumRequests :
        \/ CreateCheckProject(r) \/ CreateSaveTask(r)
        \/ DeleteFindProject(r) \/ DeleteProjectTasks(r) \/ DeleteProjectDoc(r)

SpecProject == InitProject /\ [][NextProject]_vars

----------------------------------------------------------------------------
(* Comments and notifications *)

\* isRead of a notification created without the field
IsReadDefault == FALSE

\* User.find({ role: 'admin' })
AdminUsers == {u \in Staff : Role(u) = "admin"}

\* the document of Notification.create({recipient, task, type: 'comment', actor})
CommentNotification(recipient, id, actor) ==
    [recipient |-> recipient, task |-> id, type |-> "comment", actor |-> actor,
     isRead |-> IsReadDefault]

\* the admins notified by the forEach, in the order of the query result
AdminNotifications(actor, id) ==
    LET admins == <<"admin", "root">>
        skip(a) == a = actor \/ a = tasks[id].createdBy \/ a = tasks[id].assignedTo
        note(i) == IF skip(admins[i]) THEN <<>>
                   ELSE <<CommentNotification(admins[i], id, actor)>>
    IN  note(1) \o note(2)

\* notificationPromises of POST /:id/comments
CommentNotifications(actor, id) ==
    (IF tasks[id].createdBy # actor
     THEN <<CommentNotification(tasks[id].createdBy, id, actor)>> ELSE <<>>)
    \o (IF tasks[id].assignedTo # actor
        THEN <<CommentNotification(tasks[id].assignedTo, id, actor)>> ELSE <<>>)
    \o AdminNotifications(actor, id)

\* POST /:id/comments
AddCommentReq(actor, id) ==
    /\ Len(comments) < MaxComments
    /\ IF id \notin 1..Len(tasks) THEN UNCHANGED <<comments, notifs>>    \* 404
       ELSE /\ comments' = Append(comments, [task |-> id, postedBy |-> actor])
            /\ notifs' = notifs \o CommentNotifications(actor, id)
    /\ UNCHANGED <<variant, now, tasks, users, ext, inflight, projects>>

AddComment == \E actor \in Staff, id \in 1..NumTasks : AddCommentReq(actor, id)

\* the status PATCH /notifications/:id/read answers with
MarkReadCode(actor, n) ==
    IF n \notin 1..Len(notifs) THEN 404
    ELSE IF notifs[n].recipient # actor THEN 403
    ELSE 200

\* PATCH /notifications/:id/read without the recipient test
MarkReadReq_AnyUser(actor, n) ==
    /\ notifs' = IF n \in 1..Len(notifs)
                 THEN [notifs EXCEPT ![n].isRead = TRUE] ELSE notifs
    /\ UNCHANGED <<variant, now, tasks, users, ext, inflight, projects, comments>>

\* PATCH /notifications/:id/read
MarkReadReq(actor, n) ==
    /\ notifs' = IF MarkReadCode(actor, n) = 200
                 THEN [notifs EXCEPT ![n].isRead = TRUE] ELSE notifs
    /\ UNCHANGED <<variant, now, tasks, users, ext, inflight, projects, comments>>

MarkRead == \E actor \in Staff, n \in 1..(Len(notifs) + 1) : MarkReadReq(actor, n)

\* PATCH /notifications/read-all
ReadAllReq(actor) ==
    /\ notifs' = [n \in 1..Len(notifs) |->
                     IF notifs[n].recipient = actor /\ notifs[n].isRead = FALSE
                     THEN [notifs[n] EXCEPT !.isRead = TRUE] ELSE notifs[n]]
    /\ UNCHANGED <<variant, now, tasks, users, ext, inflight, projects, comments>>

ReadAll == \E actor \in Staff : ReadAllReq(actor)

\* GET /notifications/unread/count
UnreadCount(actor) ==
    Cardinality({n \in 1..Len(notifs) :
                    notifs[n].recipient = actor /\ notifs[n].isRead = FALSE})

\* POST / by any account, for any account
CreateTaskByStaff ==
    \E actor \in Staff, assignedTo \in Staff :
        CreateTaskReq(actor, assignedTo, "medium", StartTime, "pending")

NextNotif == CreateTaskByStaff \/ AddComment \/ MarkRead \/ ReadAll

SpecNotif == InitExt /\ [][NextNotif]_vars

----------------------------------------------------------------------------
(* Vocabulary of the properties *)

RECURSIVE SumPoints(_)
SumPoints(log) ==
    IF log = <<>> THEN 0
    ELSE (IF Head(log).type = "points" THEN Head(log).value ELSE 0)
         + SumPoints(Tail(log))

\* entries of user u's log that reward the completion of task id
CompletionEntries(u, id) ==
    {i \in DOMAIN users[u].rewards :
        users[u].rewards[i].description = CompletionReason(id)}

CompletionAwards(id) ==
    Cardinality(CompletionEntries("admin", id))
    + Cardinality(CompletionEntries("alice", id))

Authorized(actor, id) ==
    /\ id <= Len(tasks)
    /\ tasks[id].assignedTo = actor \/ Role(actor) = "admin"

\* this step is a status request "completed" on task id in which completeTask
\* saved the task
CompleteTaskStep(id) ==
    \E actor \in Users, fail \in FailPoints \ {"task"} :
        Authorized(actor, id) /\ PatchStatusReq(actor, id, "completed", fail)

\* ... and in which every save succeeded
CompletionStep(id) ==
    \E actor \in Users :
        Authorized(actor, id) /\ PatchStatusReq(actor, id, "completed", "none")

\* the log entries a step appended to the log before
Appended(before, after) == SubSeq(after, Len(before) + 1, Len(after))

BonusEntries(entries) ==
    {i \in DOMAIN entries : entries[i].description.kind = "streak"}

----------------------------------------------------------------------------
(* Properties *)

\* C1: for every task, however often its status is set to "completed", the
\* completion reward for it is logged (and so awarded) at most once.
C1_AwardedAtMostOnce ==
    \A id \in 1..NumTasks : CompletionAwards(id) <= 1

\* C2: once a task has been completed (completionDate is set), no step changes
\* its isCompletedOnTime or its rewardPoints.
C2_RewardFieldsFrozen ==
    [][\A id \in 1..Len(tasks) :
          tasks[id].completionDate # Null =>
              /\ tasks'[id].isCompletedOnTime = tasks[id].isCompletedOnTime
              /\ tasks'[id].rewardPoints = tasks[id].rewardPoints]_vars

\* C3: in every reachable state every user's rewardPoints is the sum of the
\* values of the "points" entries of that user's rewards log.
C3_PointsEqualLogSum ==
    \A u \in Users : users[u].rewardPoints = SumPoints(users[u].rewards)

C3_Witness ==
    \E u \in Users :
        /\ BonusEntries(users[u].rewards) # {}
        /\ \E id \in 1..NumTasks : CompletionEntries(u, id) # {}
        /\ users[u].rewardPoints > StreakMilestone * StreakBonusFactor

\* C4: an on-time completion appends a streak-bonus entry, of value
\* currentStreak * 100, exactly when it changed currentStreak to a positive
\* multiple of 10.
C4_BonusIffNewMilestone ==
    [][\A id \in 1..Len(tasks) :
          (CompletionStep(id) /\ OnTime(now, tasks[id].dueDate)) =>
              LET a == tasks[id].assignedTo
                  new == Appended(users[a].rewards, users'[a].rewards)
                  reached ==
                      /\ users'[a].currentStreak # users[a].currentStreak
                      /\ users'[a].currentStreak > 0
                      /\ users'[a].currentStreak % StreakMilestone = 0
              IN  /\ reached <=> BonusEntries(new) # {}
                  /\ \A i \in BonusEntries(new) :
                        new[i].value = users'[a].currentStreak * StreakBonusFactor]_vars

\* C5: completeTask of models/Task.js, run at an instant at or before the last
\* instant of the due date's calendar day, leaves the task completed, with
\* completionDate that instant, isCompletedOnTime true and rewardPoints > 0.
C5_OnTimeCompletion ==
    [][\A id \in 1..Len(tasks) :
          (/\ variant = "flat"
           /\ CompleteTaskStep(id)
           /\ now <= EndOfDay(tasks[id].dueDate)) =>
              /\ tasks'[id].status = "completed"
              /\ tasks'[id].completionDate = now
              /\ tasks'[id].isCompletedOnTime
              /\ tasks'[id].rewardPoints > 0]_vars

\* a task completed at the very last instant of its due day
C5_Witness ==
    /\ variant = "flat"
    /\ \E id \in 1..Len(tasks) :
          /\ tasks[id].status = "completed"
          /\ tasks[id].completionDate = EndOfDay(tasks[id].dueDate)
          /\ tasks[id].completionDate # tasks[id].dueDate
          /\ tasks[id].isCompletedOnTime
          /\ tasks[id].rewardPoints > 0
          /\ CompletionAwards(id) > 0

\* C6: completeTask run after the end of the due date's calendar day leaves
\* isCompletedOnTime false and task.rewardPoints 0 and changes no user, under
\* both variants and whatever the task's earlier state.
C6_LateCompletion ==
    [][\A id \in 1..Len(tasks) :
          (CompleteTaskStep(id) /\ now > EndOfDay(tasks[id].dueDate)) =>
              /\ ~tasks'[id].isCompletedOnTime
              /\ tasks'[id].rewardPoints = 0
              /\ users' = users]_vars

\* C7: an on-time completion on the calendar day after the day of the user's
\* previous on-time completion increments currentStreak by exactly 1.
C7_NextDayIncrements ==
    [][\A id \in 1..Len(tasks) :
          LET a == tasks[id].assignedTo
          IN  (/\ CompletionStep(id)
               /\ OnTime(now, tasks[id].dueDate)
               /\ users[a].lastTaskCompletion # Null
               /\ Day(now) = Day(users[a].lastTaskCompletion) + 1) =>
                  users'[a].currentStreak = users[a].currentStreak + 1]_vars

\* C8: an on-time completion 2 or more calendar days after the day of the
\* user's previous on-time completion resets currentStreak to 1.
C8_GapResets ==
    [][\A id \in 1..Len(tasks) :
          LET a == tasks[id].assignedTo
          IN  (/\ CompletionStep(id)
               /\ OnTime(now, tasks[id].dueDate)
               /\ users[a].lastTaskCompletion # Null
               /\ Day(now) >= Day(users[a].lastTaskCompletion) + 2) =>
                  users'[a].currentStreak = 1]_vars

\* C9: an on-time completion sets lastTaskCompletion to its instant, and it
\* leaves currentStreak unchanged if and only if it falls on the calendar day
\* of the user's previous on-time completion.
C9_UnchangedIffSameDay ==
    [][\A id \in 1..Len(tasks) :
          LET a == tasks[id].assignedTo
              sameDay == /\ users[a].lastTaskCompletion # Null
                         /\ Day(now) = Day(users[a].lastTaskCompletion)
          IN  (CompletionStep(id) /\ OnTime(now, tasks[id].dueDate)) =>
                  /\ users'[a].lastTaskCompletion = now
                  /\ sameDay <=>
                        users'[a].currentStreak = users[a].currentStreak]_vars

\* C10: the first on-time completion of a user (no lastTaskCompletion) sets
\* currentStreak to 1 and lastTaskCompletion to its instant and appends exactly
\* one log entry, the completion reward, and no streak bonus.
C10_FirstCompletion ==
    [][\A id \in 1..Len(tasks) :
          LET a == tasks[id].assignedTo
              new == Appended(users[a].rewards, users'[a].rewards)
          IN  (/\ CompletionStep(id)
               /\ OnTime(now, tasks[id].dueDate)
               /\ users[a].lastTaskCompletion = Null) =>
                  /\ users'[a].currentStreak = 1
                  /\ users'[a].lastTaskCompletion = now
                  /\ Len(new) = 1
                  /\ new[1].description = CompletionReason(id)
                  /\ new[1].value = tasks'[id].rewardPoints
                  /\ users'[a].rewardPoints =
                         users[a].rewardPoints + tasks'[id].rewardPoints]_vars

\* a user right after the first on-time completion
C10_Witness ==
    \E u \in Users :
        /\ users[u].currentStreak = 1
        /\ users[u].lastTaskCompletion = now
        /\ Len(users[u].rewards) = 1
        /\ \E id \in 1..Len(tasks) :
              /\ tasks[id].assignedTo = u
              /\ tasks[id].isCompletedOnTime
              /\ users[u].rewards[1].description = CompletionReason(id)

\* C11: an on-time completion (one made on or before the calendar day of the
\* due date) sets task.rewardPoints to exactly 50 under the flat variant and
\* to exactly 50 + the priority bonus (urgent 50, high 30, medium 20, low 10)
\* under the tiered variant, and the completion entry added to the assignee
\* carries that value; so a "high" task due on day D and completed later on
\* day D yields 80 under the tiered and 50 under the flat variant.
C11_RewardAmount ==
    [][\A id \in 1..Len(tasks) :
          LET a == tasks[id].assignedTo
              new == Appended(users[a].rewards, users'[a].rewards)
              amount == IF variant = "flat" THEN BasePoints
                        ELSE BasePoints + PriorityBonus(tasks[id].priority)
          IN  (CompletionStep(id) /\ now <= EndOfDay(tasks[id].dueDate)) =>
                  /\ tasks'[id].rewardPoints = amount
                  /\ Len(new) > 0
                  /\ new[Len(new)].description = CompletionReason(id)
                  /\ new[Len(new)].value = tasks'[id].rewardPoints
                  /\ users'[a].rewardPoints =
                         users[a].rewardPoints + SumPoints(new)]_vars

\* C12: when the task's assignedTo names no existing User, completeTask does
\* not fail: the task is persisted as completed with rewardPoints 0 (also
\* when it is completed on time) and no user document is modified.
C12_MissingAssignee ==
    [][\A id \in 1..Len(tasks) :
          (CompletionStep(id) /\ tasks[id].assignedTo \notin Users) =>
              /\ tasks'[id].status = "completed"
              /\ tasks'[id].completionDate = now
              /\ tasks'[id].rewardPoints = 0
              /\ users' = users]_vars

\* C13: completeTask saves the task, then the user's streak (with the streak
\* bonus), then the user's completion reward.  A save that fails makes the
\* route answer 500; the saves before it stay committed and no later save is
\* applied.
C13_PartialFailure ==
    [][\A actor \in Users, id \in 1..Len(tasks), fail \in FailPoints :
          (Authorized(actor, id) /\ PatchStatusReq(actor, id, "completed", fail)) =>
              LET a == tasks[id].assignedTo
                  rewarded == a \in Users /\ OnTime(now, tasks[id].dueDate)
                  streak == IF rewarded THEN StreakAfter(users[a], now) ELSE 0
                  due == rewarded /\ StreakRewardDue([currentStreak |-> streak])
                  reached == \/ fail = "task"
                             \/ fail = "bonus" /\ due
                             \/ fail \in {"streak", "reward"} /\ rewarded
                  new == IF a \in Users
                         THEN Appended(users[a].rewards, users'[a].rewards)
                         ELSE <<>>
                  streakSaved == /\ users'[a].currentStreak = streak
                                 /\ users'[a].lastTaskCompletion = now
                  onlyBonus == /\ Len(new) = 1
                               /\ new[1].description = StreakReason(streak)
                               /\ users'[a].rewardPoints =
                                      users[a].rewardPoints + new[1].value
                  taskSaved == /\ tasks'[id].status = "completed"
                               /\ tasks'[id].completionDate = now
              IN  /\ (PatchStatusCode(actor, id, "completed", fail) = 500) <=> reached
                  /\ fail = "task" => UNCHANGED <<tasks, users>>
                  /\ fail # "task" => taskSaved
                  /\ ~rewarded => users' = users
                  /\ (reached /\ fail = "bonus") => users' = users
                  /\ (reached /\ fail = "streak") =>
                        IF due THEN streakSaved /\ onlyBonus ELSE users' = users
                  /\ (reached /\ fail = "reward") =>
                        /\ streakSaved
                        /\ IF due THEN onlyBonus
                           ELSE /\ new = <<>>
                                /\ users'[a].rewardPoints = users[a].rewardPoints
                  /\ (rewarded /\ ~reached) =>
                        /\ streakSaved
                        /\ new # <<>>
                        /\ new[Len(new)].description = CompletionReason(id)]_vars

\* a task completed on time whose points the assignee never received, though
\* the assignee's streak was saved for that completion
C13_Witness ==
    \E id \in 1..Len(tasks) :
        LET a == tasks[id].assignedTo
        IN  /\ a \in Users
            /\ tasks[id].status = "completed"
            /\ tasks[id].isCompletedOnTime
            /\ tasks[id].rewardPoints > 0
            /\ CompletionEntries(a, id) = {}
            /\ users[a].lastTaskCompletion = tasks[id].completionDate

\* the points user u had before the clock started
PointsBefore(u) ==
    SumPoints(SelectSeq(users[u].rewards, LAMBDA e : e.date < StartTime))

RECURSIVE AwardedTo(_, _)
\* the points the requests 1..r have awarded to user u
AwardedTo(u, r) ==
    IF r = 0 THEN 0
    ELSE (IF tasks[reqs[r].task].assignedTo = u THEN reqs[r].awarded ELSE 0)
         + AwardedTo(u, r - 1)

AllDone == \A r \in DOMAIN reqs : reqs[r].pc = "done"

\* C14: two on-time completions whose awaits interleave can leave the user's
\* rewardPoints below the sum of the awards made (the state of C14_LostUpdate
\* is reachable); when no request loads the user while another holds a loaded
\* copy, rewardPoints is always the earlier points plus every award made.
C14_NoLossWhenSerial ==
    ~overlapped =>
        \A u \in Users :
            users[u].rewardPoints = PointsBefore(u) + AwardedTo(u, NumRequests)

\* two finished completions of two different tasks of alice, one award lost
C14_LostUpdate ==
    /\ AllDone
    /\ overlapped
    /\ reqs[1].task # reqs[2].task
    /\ reqs[1].awarded > 0 /\ reqs[2].awarded > 0
    /\ users["alice"].rewardPoints
           < PointsBefore("alice") + AwardedTo("alice", NumRequests)

\* the same for two completions of the same task
SameTaskLostUpdate ==
    /\ AllDone
    /\ reqs[1].task = reqs[2].task
    /\ users["alice"].rewardPoints
           < PointsBefore("alice") + AwardedTo("alice", NumRequests)

\* this step is a resolution request that the handler accepted
Resolved(actor, id, status, newDueDate) ==
    /\ ResolveExtensionReq(actor, id, status, newDueDate)
    /\ tasks' # tasks \/ ext' # ext

\* C15 as stated: approving a pending extension request of the assignee sets
\* the task's dueDate to the newDueDate stored in that request; rejecting it
\* leaves dueDate unchanged.
C15_ApprovalAppliesRequestedDate ==
    [][\A actor \in Users, id \in 1..Len(tasks), status \in {"approved", "rejected"},
          d \in ProposedDates \cup {StartTime, Null} :
          (/\ Resolved(actor, id, status, d)
           /\ ext[id].status = "pending"
           /\ ext[id].requestedBy = tasks[id].assignedTo) =>
              IF status = "approved"
              THEN tasks'[id].dueDate = ext[id].newDueDate
              ELSE tasks'[id].dueDate = tasks[id].dueDate]_vars

\* C15, amended: approving an extension request sets the task's dueDate (and
\* the request's newDueDate) to the newDueDate sent with the approval, which
\* is later than the current dueDate; rejecting leaves dueDate unchanged.
C15_ApprovalAppliesApprovedDate ==
    [][\A actor \in Users, id \in 1..Len(tasks), status \in {"approved", "rejected"},
          d \in ProposedDates \cup {StartTime, Null} :
          Resolved(actor, id, status, d) =>
              IF status = "approved"
              THEN /\ d > tasks[id].dueDate
                   /\ tasks'[id].dueDate = d
                   /\ ext'[id].newDueDate = d
                   /\ ext'[id].status = "approved"
              ELSE /\ tasks'[id].dueDate = tasks[id].dueDate
                   /\ ext'[id].status = "rejected"]_vars

\* a request of the assignee, approved by an admin, with the task due at the
\* approved date
C15_Witness ==
    \E id \in 1..Len(tasks) :
        /\ ext[id].requested
        /\ ext[id].status = "approved"
        /\ ext[id].requestedBy = tasks[id].assignedTo
        /\ IsAdmin(ext[id].approvedBy)
        /\ tasks[id].dueDate = ext[id].newDueDate
        /\ tasks[id].dueDate \in ProposedDates

\* the state of an extension request
ExtState(e) == IF e.requested THEN e.status ELSE "not-requested"

\* this step is one of the two extension-request operations on task id
ExtensionStep(id) ==
    \/ \E actor \in Users, reason \in {"", "reason"},
          d \in ProposedDates \cup {StartTime, Null} :
          RequestExtensionReq(actor, id, reason, d)
    \/ \E actor \in Users, status \in {"approved", "rejected", "pending"},
          d \in ProposedDates \cup {StartTime, Null} :
          ResolveExtensionReq(actor, id, status, d)

\* C16: every change of the state of an extension request (none yet, or one
\* opened by the assignee) by the extension operations is
\* not-requested -> pending, pending -> approved or pending -> rejected, and
\* a request that is approved or rejected is not resolved again or overwritten.
C16_ExtensionTransitions ==
    [][\A id \in 1..Len(tasks) :
          (/\ ExtensionStep(id)
           /\ ext[id].requested => ext[id].requestedBy = tasks[id].assignedTo) =>
              LET from == ExtState(ext[id])
                  to == ExtState(ext'[id])
              IN  /\ from # to =>
                        <<from, to>> \in {<<"not-requested", "pending">>,
                                          <<"pending", "approved">>,
                                          <<"pending", "rejected">>}
                  /\ from \in {"approved", "rejected"} => ext'[id] = ext[id]]_vars

\* C17: an extension request is opened only by the task's assignee and
\* resolved only by an admin: a step that moves extensionRequest.requested to
\* true is the assignee's POST /:id/extension-request, a step that changes
\* the status to approved or rejected is an admin's
\* PATCH /:id/extension-request, and an attempt by anyone else leaves the
\* task unchanged.
C17_OpenedByAssigneeResolvedByAdmin ==
    [][\A id \in 1..Len(tasks) :
          /\ (~ext[id].requested /\ ext'[id].requested) =>
                \E reason \in {"", "reason"}, d \in ProposedDates \cup {StartTime, Null} :
                    RequestExtensionReq(tasks[id].assignedTo, id, reason, d)
          /\ (/\ ext'[id].status # ext[id].status
              /\ ext'[id].status \in {"approved", "rejected"}) =>
                \E actor \in Users, status \in {"approved", "rejected"},
                   d \in ProposedDates \cup {StartTime, Null} :
                    IsAdmin(actor) /\ ResolveExtensionReq(actor, id, status, d)
          /\ \A actor \in Users, d \in ProposedDates \cup {StartTime, Null} :
                /\ (actor # tasks[id].assignedTo
                    /\ RequestExtensionReq(actor, id, "reason", d)) =>
                        UNCHANGED <<tasks, ext>>
                /\ (~IsAdmin(actor)
                    /\ \E status \in {"approved", "rejected"} :
                          ResolveExtensionReq(actor, id, status, d)) =>
                        UNCHANGED <<tasks, ext>>]_vars

\* C18: in every behaviour, interleaved requests included, every step leaves
\* each user's rewards log an extension of what it was (entries are only
\* appended) and does not decrease the user's rewardPoints.
C18_LogAppendOnlyPointsMonotone ==
    [][\A u \in Users :
          /\ Len(users'[u].rewards) >= Len(users[u].rewards)
          /\ SubSeq(users'[u].rewards, 1, Len(users[u].rewards)) = users[u].rewards
          /\ users'[u].rewardPoints >= users[u].rewardPoints]_vars

\* C19: a user's rewardPoints, currentStreak, lastTaskCompletion and rewards
\* are changed only by the completion of a task assigned to that user: every
\* step that changes them is a status request "completed" on such a task, so
\* task creation and update, other status changes, extension requests and
\* their resolution, and completions of other users' tasks leave them as
\* they were.
C19_RewardStateFrame ==
    [][\A u \in Users :
          users'[u] # users[u] =>
              \E id \in 1..Len(tasks) :
                  tasks[id].assignedTo = u /\ CompleteTaskStep(id)]_vars

\* alice was rewarded for her task and the admin, who created it, opened an
\* extension request on it by PUT and completed it, still has no reward state
C19_Witness ==
    \E id \in 1..Len(tasks) :
        /\ tasks[id].assignedTo = "alice"
        /\ tasks[id].createdBy = "admin"
        /\ CompletionEntries("alice", id) # {}
        /\ ext[id].requested
        /\ users["admin"] = NewUser

\* C20: a status-change request is rejected, with no effect on any Task or
\* User, when the status is missing or invalid (400), when the task does not
\* exist (404), and when the requester is neither the assignee nor an admin
\* (403); so only the assignee or an admin changes a task's status or
\* triggers the reward computation through this operation.
C20_RejectedStatusRequests ==
    [][\A actor \in Users, id \in 1..NumTasks,
          status \in {"in_progress", "completed", "", "invalid"} :
          \A fail \in SavesOf(status) :
          PatchStatusReq(actor, id, status, fail) =>
              LET code == PatchStatusCode(actor, id, status, fail)
                  valid == status \in Statuses
                  found == id <= Len(tasks)
              IN  /\ ~valid => code = 400 /\ UNCHANGED <<tasks, users>>
                  /\ (valid /\ ~found) => code = 404 /\ UNCHANGED <<tasks, users>>
                  /\ (valid /\ found /\ ~Authorized(actor, id)) =>
                        code = 403 /\ UNCHANGED <<tasks, users>>
                  /\ (tasks' # tasks \/ users' # users) =>
                        valid /\ found /\ Authorized(actor, id)]_vars

\* a task assigned to the admin was moved to "in_progress" (only a status
\* request does that) while alice, who may not touch it, has got nothing
C20_Witness ==
    \E id \in 1..Len(tasks) :
        /\ tasks[id].assignedTo = "admin"
        /\ tasks[id].status = "in_progress"
        /\ ~Authorized("alice", id)
        /\ PatchStatusCode("alice", id, "completed", "none") = 403
        /\ PatchStatusCode("alice", id, "", "none") = 400
        /\ users["alice"].rewards = <<>>

\* C21: a successful status change to "completed" answers with a rewardInfo
\* whose pointsEarned and isCompletedOnTime are the task's persisted
\* rewardPoints and flag and whose totalPoints and currentStreak are the
\* assignee's persisted rewardPoints and currentStreak after the completion;
\* a successful change to another status answers with rewardInfo null and
\* changes no reward state.
C21_RewardInfo ==
    [][\A actor \in Users, id \in 1..Len(tasks),
          status \in {"in_progress", "completed"} :
          \A fail \in SavesOf(status) :
          (/\ PatchStatusReq(actor, id, status, fail)
           /\ PatchStatusCode(actor, id, status, fail) = 200) =>
              LET info == RewardInfo(actor, id, status, fail)
                  a == tasks[id].assignedTo
              IN  IF status = "completed"
                  THEN a \in Users =>
                          /\ info.present
                          /\ info.pointsEarned = tasks'[id].rewardPoints
                          /\ info.isCompletedOnTime = tasks'[id].isCompletedOnTime
                          /\ info.totalPoints = users'[a].rewardPoints
                          /\ info.currentStreak = users'[a].currentStreak
                  ELSE /\ ~info.present
                       /\ users' = users
                       /\ tasks'[id].rewardPoints = tasks[id].rewardPoints
                       /\ tasks'[id].isCompletedOnTime = tasks[id].isCompletedOnTime]_vars

\* a task completed on time by its assignee, whose points are part of the
\* assignee's total
C21_Witness ==
    \E id \in 1..Len(tasks) :
        LET a == tasks[id].assignedTo
        IN  /\ a \in Users
            /\ tasks[id].status = "completed"
            /\ tasks[id].completionDate = now
            /\ tasks[id].rewardPoints > 0
            /\ CompletionEntries(a, id) # {}
            /\ users[a].rewardPoints >= tasks[id].rewardPoints
            /\ users[a].currentStreak > 0

\* C22: every task whose persisted status is "completed" has a completionDate:
\* no sequence of task creations, PUT /:id and PATCH /:id/status requests
\* reaches a state with status "completed" and completionDate null.
C22_CompletedHasCompletionDate ==
    \A id \in 1..Len(tasks) :
        tasks[id].status = "completed" => tasks[id].completionDate # Null

\* C23: once DELETE /projects/:id has answered with success, no task that
\* references the deleted project exists, also when task creations for that
\* project are interleaved with the deletion.
C23_NoTaskOfDeletedProject ==
    \A r \in DOMAIN reqs :
        (reqs[r].kind = "delete" /\ reqs[r].code = 200) =>
            \A id \in 1..Len(tasks) : tasks[id].project # reqs[r].project

\* C24: a comment creates exactly one notification for each member of
\* ({creator, assignee} \cup admins) \ {commenter} and none for anybody else:
\* the commenter is not notified and no recipient is notified twice.
C24_OneNotificationPerRecipient ==
    [][\A actor \in Staff, id \in 1..Len(tasks) :
          AddCommentReq(actor, id) =>
              LET created == SubSeq(notifs', Len(notifs) + 1, Len(notifs'))
                  recipients == ({tasks[id].createdBy, tasks[id].assignedTo}
                                    \cup AdminUsers) \ {actor}
                  count(u) == Cardinality({i \in 1..Len(created) :
                                              created[i].recipient = u})
              IN  \A u \in Staff : count(u) = IF u \in recipients THEN 1 ELSE 0]_vars

\* C25: isRead is set only by the recipient and never reset: PATCH /:id/read
\* by another user answers 403 and changes no notification, read-all changes
\* only the requester's notifications, a read notification stays read, and a
\* user's unread count grows only when a notification is created.
C25_ReadOnlyByRecipient ==
    [][/\ Len(notifs') >= Len(notifs)
       /\ \A n \in 1..Len(notifs) :
             /\ notifs[n].isRead => notifs'[n].isRead
             /\ (~notifs[n].isRead /\ notifs'[n].isRead) =>
                   \/ MarkReadReq(notifs[n].recipient, n)
                   \/ ReadAllReq(notifs[n].recipient)
       /\ \A actor \in Staff, n \in 1..Len(notifs) :
             (MarkReadReq(actor, n) /\ notifs[n].recipient # actor) =>
                 MarkReadCode(actor, n) = 403 /\ notifs' = notifs
       /\ \A actor \in Staff :
             ReadAllReq(actor) =>
                 \A n \in 1..Len(notifs) :
                     notifs[n].recipient # actor => notifs'[n] = notifs[n]
       /\ \A u \in Staff :
             UnreadCount(u)' > UnreadCount(u) => Len(notifs') > Len(notifs)]_vars

\* a notification read by its recipient beside an unread one of another user
C25_Witness ==
    \E n, m \in 1..Len(notifs) :
        /\ notifs[n].isRead /\ ~notifs[m].isRead
        /\ notifs[n].recipient # notifs[m].recipient

====
